---- MODULE Spec2Model ----
(***************************************************************************)
(* EDET: the five layer evaluators over a shared DatasetProfile and the    *)
(* trust aggregator (compute_edti), as TrustEngine.evaluate runs them.     *)
(*                                                                         *)
(* Scores are fixed-point integers in units of 1/10000 (the evaluators     *)
(* round every stored score to 4 decimals).  Timestamps and the clock are  *)
(* whole days.  Column names and reason labels are sequences of characters *)
(* so that re.search(pattern, name) and Python's `x in r` are computed as  *)
(* substring tests.                                                        *)
(***************************************************************************)
EXTENDS Integers, Sequences, FiniteSets, TLC

VARIABLES df, now, parallel, res, err, clk, bundles

vars == <<df, now, parallel, res, err, clk, bundles>>

(***************************************************************************)
(* Bounds of the model.                                                    *)
(***************************************************************************)
\* columns of a table
MaxCols == 2
\* rows of a small table: 0..MaxRows
MaxRows == 3
\* rows of a large table (more than 10 and at least 20 rows are the cases
\* of the near-constant and the anomaly-density branches)
BigRows == 20
\* days the clock advances during a run of the model
MaxTicks == 2
\* calls of TrustEngine.evaluate on the same profile
MaxCalls == 2
\* columns of the widest table (one more than the cap of 50 risk flags)
MaxWide == 51

(***************************************************************************)
(* Text.                                                                   *)
(***************************************************************************)
UpperChars == <<"A","B","C","D","E","F","G","H","I","J","K","L","M",
                "N","O","P","Q","R","S","T","U","V","W","X","Y","Z">>
LowerChars == <<"a","b","c","d","e","f","g","h","i","j","k","l","m",
                "n","o","p","q","r","s","t","u","v","w","x","y","z">>

\* str.lower() on one character
LowerChar(c) ==
    IF \E i \in 1..26 : UpperChars[i] = c
    THEN LowerChars[CHOOSE i \in 1..26 : UpperChars[i] = c]
    ELSE c

\* str.lower()
Lower(s) == [i \in 1..Len(s) |-> LowerChar(s[i])]

\* re.search(pat, s) for a literal pattern, and Python's `pat in s`
Contains(pat, s) ==
    \E i \in 0..(Len(s) - Len(pat)) : \A k \in 1..Len(pat) : s[i + k] = pat[k]

\* any(re.search(p, name.lower()) for p in patterns)
_col_like(name, patterns) ==
    LET name_lower == SubSeq(Lower(name), 1, Len(name))
    IN  \E j \in 1..Len(patterns) : Contains(patterns[j], name_lower)

(***************************************************************************)
(* Tables.  A cell is [k, v]: k is the kind of value and v identifies it   *)
(* (equal cells are equal values).  Kinds:                                 *)
(*   null   NaN / None / NaT                                               *)
(*   int    an int64 value v            float  a float64 value v           *)
(*   word   a text value that is no number, date or e-mail address         *)
(*   numtxt a text value that float() parses ("1,000")                     *)
(*   email  an e-mail formatted text value                                 *)
(*   iso    the text 'YYYY-MM-DD' of day v (parses to a naive timestamp)   *)
(*   isoz   the text 'YYYY-MM-DDThh:mm:ssZ' of day v (parses tz-aware)     *)
(*   ts     a naive Timestamp of day v                                     *)
(* A column is [name, dtype, vals]; a table is [cols, n_rows].             *)
(***************************************************************************)
Cell(k, v) == [k |-> k, v |-> v]
NullCell == Cell("null", 0)

Odd(i) == i % 2 = 1

\* The value in row i of n of a column filled by pattern g.
Gen(g, i, n) ==
    CASE g = "seq"     -> Cell("int", i)
      [] g = "alt21"   -> Cell("int", IF Odd(i) THEN 2 ELSE 1)
      [] g = "alt12"   -> Cell("int", IF Odd(i) THEN 1 ELSE 2)
      [] g = "outlier" -> Cell("int", IF i = 1 THEN -1 ELSE 0)
      [] g = "iconst"  -> Cell("int", 1)
      [] g = "fseq"    -> Cell("float", i)
      [] g = "fconst"  -> Cell("float", 1)
      [] g = "fhalf"   -> IF i = 1 THEN NullCell ELSE Cell("float", 1 + (i % 2))
      [] g = "null"    -> NullCell
      [] g = "emails"  -> Cell("email", i)
      [] g = "wconst"  -> Cell("word", 0)
      [] g = "words"   -> Cell("word", i)
      [] g = "mixed"   -> IF Odd(i) THEN Cell("numtxt", i) ELSE Cell("word", i)
      [] g = "daily"   -> Cell("ts", i - n - 30)
      [] g = "isojump" -> Cell("iso", IF i = n THEN 0 ELSE i - n - 10)
      [] g = "isoz"    -> Cell("isoz", i - n)
      [] g = "batched" -> Cell("ts", IF i = n THEN -365 ELSE -375)

Template(name, dtype, g, big) == [name |-> name, dtype |-> dtype, g |-> g, big |-> big]

\* Column templates, grouped by theme; big: usable in a table of BigRows rows
\* (the numeric patterns of large tables keep to the values -1..2).
Ledger ==
    << Template(<<"I","D">>, "int64", "seq", FALSE),
       Template(<<"s","a","l","e","s">>, "int64", "alt21", TRUE),
       Template(<<"p","r","o","f","i","t","_","a","m","o","u","n","t">>, "int64", "alt12", TRUE),
       Template(<<"q","t","y">>, "int64", "outlier", TRUE),
       Template(<<"t","x","n">>, "object", "wconst", TRUE) >>
People ==
    << Template(<<"e","m","a","i","l">>, "object", "emails", TRUE),
       Template(<<"p","a","s","s","w","o","r","d">>, "object", "wconst", TRUE),
       Template(<<"s","a","l","a","r","y">>, "float64", "fhalf", TRUE),
       Template(<<"n","o","t","e","s">>, "object", "mixed", TRUE),
       Template(<<"n","a","m","e">>, "object", "null", TRUE) >>
Temporal ==
    << Template(<<"a","r","c","h","i","v","e","d">>, "datetime64[ns]", "null", TRUE),
       Template(<<"c","r","e","a","t","e","d">>, "datetime64[ns]", "daily", TRUE),
       Template(<<"u","p","d","a","t","e","d">>, "object", "isojump", TRUE),
       Template(<<"s","y","n","c","e","d">>, "object", "isoz", TRUE),
       Template(<<"l","a","b","e","l">>, "object", "words", TRUE),
       Template(<<"l","o","a","d","e","d">>, "datetime64[ns]", "batched", TRUE) >>
Measures ==
    << Template(<<"r","a","t","e">>, "float64", "fconst", TRUE),
       Template(<<"m","a","r","g","i","n">>, "float64", "null", TRUE),
       Template(<<"r","e","a","d","i","n","g">>, "float64", "fseq", FALSE),
       Template(<<"l","e","v","e","l">>, "int64", "iconst", TRUE) >>
Themes == {Ledger, People, Temporal, Measures}

\* pd.DataFrame column built from a template, with n rows
MakeColumn(t, n) ==
    [name |-> t.name, dtype |-> t.dtype, vals |-> [i \in 1..n |-> Gen(t.g, i, n)]]

\* The indices of S in increasing order.
RECURSIVE SortedSeq(_)
SortedSeq(S) ==
    IF S = {} THEN <<>>
    ELSE LET m == CHOOSE x \in S : \A y \in S : x <= y
         IN  <<m>> \o SortedSeq(S \ {m})

\* The table with n rows whose columns are the templates of theme th at the
\* indices S, in the theme's order.
MakeTable(th, S, n) ==
    LET idx == SortedSeq(S)
    IN  [cols |-> [j \in 1..Len(idx) |-> MakeColumn(th[idx[j]], n)], n_rows |-> n]

RowCounts == (0..MaxRows) \cup {BigRows}

ThemeTables ==
    { MakeTable(th, S, n) :
        <<th, S, n>> \in
          { x \in Themes \X (SUBSET (1..6)) \X RowCounts :
              /\ x[2] \subseteq 1..Len(x[1])
              /\ Cardinality(x[2]) <= MaxCols
              /\ (x[3] > MaxRows => \A j \in x[2] : x[1][j].big) } }

Digits == <<"0","1","2","3","4","5","6","7","8","9">>
\* str(i) for 0 <= i < 100
Str(i) ==
    IF i < 10 THEN <<Digits[i + 1]>>
    ELSE <<Digits[(i \div 10) + 1], Digits[(i % 10) + 1]>>

\* The wide table of n rows with k columns of one template, named as
\* read_csv names repeated headers: name, name.1, .., name.(k-1).
WideTable(tpl, k, n) ==
    [cols |-> [j \in 1..k |->
                [MakeColumn(tpl, n) EXCEPT
                    !.name = IF j = 1 THEN @ ELSE @ \o <<".">> \o Str(j - 1)]],
     n_rows |-> n]

\* Wide tables: numeric columns with a negative value (qty, token_count),
\* text columns with a sensitive name (email, password) and fully-null
\* columns (name), in numbers around the list caps of 30 and 50 and around
\* 3 and 5.
WideTables ==
    { WideTable(x[1], x[2], x[3]) :
        x \in    ({Ledger[4]} \X {3, 5} \X {2, BigRows})
             \cup ({Ledger[4]} \X {29, 30, 31} \X {1})
             \cup ({People[1]} \X {4, 5} \X {1, 2})
             \cup ({People[2]} \X {4, 49, 50, MaxWide} \X {1, 2})
             \cup ({People[5]} \X {3, 4, 5} \X {2, BigRows})
             \cup ({Template(<<"t","o","k","e","n","_","c","o","u","n","t">>,
                              "int64", "outlier", TRUE)} \X {MaxWide} \X {1}) }

\* Tables across themes: a key column beside a column of timestamps, which
\* no evaluator penalises when the newest timestamp is at most 30 days old.
KeyedTables ==
    { [cols |-> <<MakeColumn(Ledger[1], n), MakeColumn(Temporal[2], n)>>,
       n_rows |-> n] : n \in 1..MaxRows }

Tables == ThemeTables \cup WideTables \cup KeyedTables

(***************************************************************************)
(* pandas primitives the evaluators use.                                   *)
(***************************************************************************)
RECURSIVE Sum(_)
Sum(s) == IF s = <<>> THEN 0 ELSE Head(s) + Sum(Tail(s))

\* the concatenation of a sequence of sequences (a loop of list.append)
RECURSIVE Concat(_)
Concat(ss) == IF ss = <<>> THEN <<>> ELSE Head(ss) \o Concat(Tail(ss))

Max2(a, b) == IF a >= b THEN a ELSE b
Min2(a, b) == IF a <= b THEN a ELSE b

IsNull(c) == c.k = "null"
n_cols(t) == Len(t.cols)
columns(t) == [j \in 1..n_cols(t) |-> t.cols[j].name]

\* Series.isna().all() / Series.notna().all()  (both true of an empty Series)
isna_all(col) == \A i \in 1..Len(col.vals) : IsNull(col.vals[i])
notna_all(col) == \A i \in 1..Len(col.vals) : ~IsNull(col.vals[i])
\* Series.dropna()
dropna(col) == SelectSeq(col.vals, LAMBDA c : ~IsNull(c))
\* Series.nunique(): distinct non-null values
nunique(col) == Cardinality({col.vals[i] : i \in 1..Len(col.vals)} \ {NullCell})
\* df.isna().sum().sum()
isna_sum(t) ==
    Sum([j \in 1..n_cols(t) |-> Len(t.cols[j].vals) - Len(dropna(t.cols[j]))])
\* the number of cells n_rows * n_cols
n_cells(t) == t.n_rows * n_cols(t)

Row(t, i) == [j \in 1..n_cols(t) |-> t.cols[j].vals[i]]
\* df.duplicated().sum(): rows equal to an earlier row (NaN equal to NaN);
\* an empty frame (no rows or no columns) has none
duplicated_sum(t) ==
    IF n_cols(t) = 0 THEN 0
    ELSE Cardinality({i \in 1..t.n_rows : \E k \in 1..(i - 1) : Row(t, k) = Row(t, i)})
\* Series.duplicated().sum()
series_duplicated_sum(col) ==
    Cardinality({i \in 1..Len(col.vals) : \E k \in 1..(i - 1) : col.vals[k] = col.vals[i]})

\* Series.value_counts(dropna=False).iloc[0]: the count of the most frequent
\* value, NaN included (0 stands for an empty value_counts)
CountOf(col, c) == Cardinality({i \in 1..Len(col.vals) : col.vals[i] = c})
top_count(col) ==
    IF col.vals = <<>> THEN 0
    ELSE LET i == CHOOSE i \in 1..Len(col.vals) :
                    \A k \in 1..Len(col.vals) :
                        CountOf(col, col.vals[k]) <= CountOf(col, col.vals[i])
         IN  CountOf(col, col.vals[i])
\* value_counts(dropna=False).index[0]: the first value holding the top count
top_value(col) ==
    LET i == CHOOSE i \in 1..Len(col.vals) :
                /\ CountOf(col, col.vals[i]) = top_count(col)
                /\ \A k \in 1..(i - 1) : CountOf(col, col.vals[k]) < top_count(col)
    IN  col.vals[i]

\* df.select_dtypes(include=[np.number]) / include=["object"]
IsNumber(col) == col.dtype \in {"int64", "int32", "float64"}
IsObject(col) == col.dtype = "object"
IsObjectOrString(col) == col.dtype \in {"object", "string"}
IsDatetime(col) == col.dtype \in {"datetime64[ns]", "datetime64[ns, UTC]"}
select_number(t) == SelectSeq(t.cols, IsNumber)

\* The rows where both columns hold a value (pairwise complete observations).
Complete(x, y) ==
    SelectSeq([i \in 1..Len(x.vals) |-> i],
              LAMBDA i : ~IsNull(x.vals[i]) /\ ~IsNull(y.vals[i]))
\* m*Sum(x*y) - Sum(x)*Sum(y) over the rows of idx: m*m times the covariance
CoMoment(x, y, idx) ==
    Len(idx) * Sum([k \in 1..Len(idx) |-> x.vals[idx[k]].v * y.vals[idx[k]].v])
    - Sum([k \in 1..Len(idx) |-> x.vals[idx[k]].v]) * Sum([k \in 1..Len(idx) |-> y.vals[idx[k]].v])
\* DataFrame.corr().abs().iloc[i, j] > 0.95: Pearson's r over the pairwise
\* complete rows; r is NaN (and the comparison false) when a variance is zero.
\* r*r > 0.9025 is 400*Sxy^2 > 361*Sxx*Syy.
corr_above_095(x, y) ==
    LET idx == Complete(x, y)
        sxy == CoMoment(x, y, idx)
        sxx == CoMoment(x, x, idx)
        syy == CoMoment(y, y, idx)
    IN  /\ sxx > 0
        /\ syy > 0
        /\ 400 * sxy * sxy > 361 * sxx * syy

\* redundant returned as collected, without list(dict.fromkeys(...))
dedupe_skipped(xs) == xs

\* list(dict.fromkeys(xs)): the first occurrence of every element, in order
dedupe(xs) ==
    LET keep == SelectSeq([i \in 1..Len(xs) |-> i],
                          LAMBDA i : ~(\E k \in 1..(i - 1) : xs[k] = xs[i]))
    IN  [j \in 1..Len(keep) |-> xs[keep[j]]]

InSeq(x, xs) == \E i \in 1..Len(xs) : xs[i] = x

(***************************************************************************)
(* Structural Reliability Layer.                                           *)
(***************************************************************************)
Flag(msg, about) == <<msg, about>>

\* the dtype test of the identifier loop: object, string and the int dtypes
IsKeyDtype(col) == col.dtype \in {"object", "string", "int64", "int32"}

empty_cols(t) ==
    LET idx == SelectSeq([j \in 1..n_cols(t) |-> j], LAMBDA j : isna_all(t.cols[j]))
    IN  [k \in 1..Len(idx) |-> t.cols[idx[k]].name]

\* candidate primary keys: a key-typed column with as many distinct values
\* as rows and no null
candidate_pks(t) ==
    Concat([j \in 1..n_cols(t) |->
        IF /\ IsKeyDtype(t.cols[j])
           /\ nunique(t.cols[j]) = t.n_rows
           /\ t.n_rows > 0
           /\ notna_all(t.cols[j])
        THEN <<t.cols[j].name>> ELSE <<>>])

\* a key-typed column with one distinct value when there is more than one row
IsConstantColumn(t, col) ==
    IsKeyDtype(col) /\ nunique(col) = 1 /\ t.n_rows > 1

constant_cols(t) ==
    Concat([j \in 1..n_cols(t) |->
        IF IsConstantColumn(t, t.cols[j]) THEN <<t.cols[j].name>> ELSE <<>>])

\* a column not yet redundant whose most frequent value covers 95% of more
\* than 10 rows
IsNearConstant(t, col) ==
    /\ ~InSeq(col.name, constant_cols(t))
    /\ top_count(col) > 0
    /\ 100 * top_count(col) >= 95 * t.n_rows
    /\ t.n_rows > 10

near_constant_cols(t) ==
    Concat([j \in 1..n_cols(t) |->
        IF IsNearConstant(t, t.cols[j]) THEN <<t.cols[j]>> ELSE <<>>])

\* the pairs i < j of numeric columns with |r| > 0.95, in loop order
correlated_pairs(t) ==
    LET num == select_number(t)
    IN  IF Len(num) < 2 THEN <<>>
        ELSE Concat([i \in 1..Len(num) |->
                Concat([j \in 1..Len(num) |->
                    IF i < j /\ corr_above_095(num[i], num[j])
                    THEN << <<num[i].name, num[j].name>> >> ELSE <<>>])])

\* redundant, before and after list(dict.fromkeys(redundant))
redundant_raw(t) ==
    LET near == near_constant_cols(t)
        pairs == correlated_pairs(t)
    IN  constant_cols(t)
        \o [k \in 1..Len(near) |-> near[k].name]
        \o Concat([k \in 1..Len(pairs) |-> pairs[k]])
redundant(t) == dedupe(redundant_raw(t))

\* object columns holding both values float() parses and values it does not
type_inconsistent(t) ==
    Concat([j \in 1..n_cols(t) |->
        LET non_null == dropna(t.cols[j])
            num_like == Len(SelectSeq(non_null, LAMBDA c : c.k = "numtxt"))
        IN  IF IsObject(t.cols[j]) /\ Len(non_null) > 0
               /\ 0 < num_like /\ num_like < Len(non_null)
            THEN <<t.cols[j].name>> ELSE <<>>])

structural_flags(t) ==
    LET empty == empty_cols(t)
        dup == duplicated_sum(t)
        constant == constant_cols(t)
        near == near_constant_cols(t)
        pairs == correlated_pairs(t)
        mixed == type_inconsistent(t)
    IN  (IF empty # <<>> THEN <<Flag("Empty columns", empty)>> ELSE <<>>)
        \o (IF n_cells(t) > 0 /\ 10 * isna_sum(t) > 3 * n_cells(t)
              THEN <<Flag("High missing value density", <<isna_sum(t), n_cells(t)>>)>>
            ELSE IF n_cells(t) > 0 /\ 10 * isna_sum(t) > n_cells(t)
              THEN <<Flag("Moderate missing value density", <<isna_sum(t), n_cells(t)>>)>>
            ELSE <<>>)
        \o (IF dup > 0 THEN <<Flag("Duplicate rows", <<dup, t.n_rows>>)>> ELSE <<>>)
        \o [k \in 1..Len(constant) |-> Flag("Constant column", constant[k])]
        \o [k \in 1..Len(near) |->
              Flag("Near-constant column", <<near[k].name, top_value(near[k])>>)]
        \o [k \in 1..Len(pairs) |-> Flag("High correlation redundancy", pairs[k])]
        \o [k \in 1..Len(mixed) |-> Flag("Type inconsistency in column", mixed[k])]

\* max(0.0, min(1.0, x)) in units of 1/10000
Clamp01(x) == Max2(0, Min2(10000, x))

\* the score with 0.1 taken for every empty column, however many
structural_score_every_empty(t, redundant_list) ==
    LET miss == isna_sum(t)
        cells == n_cells(t)
        dup == duplicated_sum(t)
        p_missing ==
            IF cells > 0 /\ 2 * miss > cells THEN 3500
            ELSE IF cells > 0 /\ 5 * miss > cells THEN 2000
            ELSE IF cells > 0 /\ 20 * miss > cells THEN 1000
            ELSE 0
        p_dup ==
            IF 10 * dup > Max2(t.n_rows, 1) THEN 2000
            ELSE IF dup > 0 THEN 1000
            ELSE 0
        p_redundant ==
            IF 10 * Len(redundant_list) > 3 * n_cols(t) THEN 1500 ELSE 0
    IN  Clamp01(10000 - p_missing - p_dup - 1000 * Len(empty_cols(t)) - p_redundant)

\* Structural Integrity Score, in units of 1/10000
structural_score(t, redundant_list) ==
    LET miss == isna_sum(t)
        cells == n_cells(t)
        dup == duplicated_sum(t)
        p_missing ==
            IF cells > 0 /\ 2 * miss > cells THEN 3500
            ELSE IF cells > 0 /\ 5 * miss > cells THEN 2000
            ELSE IF cells > 0 /\ 20 * miss > cells THEN 1000
            ELSE 0
        p_dup ==
            IF 10 * dup > Max2(t.n_rows, 1) THEN 2000
            ELSE IF dup > 0 THEN 1000
            ELSE 0
        p_empty ==
            IF Len(empty_cols(t)) > 0 THEN 1000 * Min2(Len(empty_cols(t)), 3) ELSE 0
        p_redundant ==
            IF 10 * Len(redundant_list) > 3 * n_cols(t) THEN 1500 ELSE 0
    IN  Clamp01(10000 - p_missing - p_dup - p_empty - p_redundant)

evaluate_structural(t) ==
    LET redundant_list == redundant(t)
    IN  [ structural_integrity_score |-> structural_score(t, redundant_list),
          structural_risk_flags |-> structural_flags(t),
          redundant_feature_list |-> redundant_list,
          candidate_primary_keys |-> candidate_pks(t) ]

(***************************************************************************)
(* Governance & Sensitivity Layer.                                         *)
(***************************************************************************)
\* the keys of PII_PATTERNS, in the dict's order
PII_PATTERNS ==
    << <<"e","m","a","i","l">>, <<"s","s","n">>, <<"p","h","o","n","e","_","u","s">>,
       <<"c","r","e","d","i","t","_","c","a","r","d">>, <<"i","b","a","n">>, <<"i","p","_","a","d","d","r","e","s","s">> >>

\* Column name hints for high-risk attributes
SENSITIVE_NAME_PATTERNS ==
    <<
       <<"p","a","s","s","w","o","r","d">>, <<"p","a","s","s","w","d">>, <<"p","w","d">>,
       <<"s","e","c","r","e","t">>, <<"t","o","k","e","n">>, <<"a","p","i","_","k","e","y">>,
       <<"s","s","n">>, <<"s","o","c","i","a","l">>, <<"t","a","x","_","i","d">>,
       <<"n","i","n">>, <<"d","o","b">>, <<"b","i","r","t","h","_","d","a","t","e">>,
       <<"s","a","l","a","r","y">>, <<"i","n","c","o","m","e">>, <<"b","a","n","k","_","a","c","c","o","u","n","t">>,
       <<"c","r","e","d","i","t","_","c","a","r","d">>, <<"c","v","v">>, <<"e","m","a","i","l">>,
       <<"p","h","o","n","e">>, <<"a","d","d","r","e","s","s">>, <<"n","a","m","e">>,
       <<"f","i","r","s","t","_","n","a","m","e">>, <<"l","a","s","t","_","n","a","m","e">> >>

\* f"name:{pat}"
NameReason(pat) == <<"n","a","m","e",":">> \o pat

\* the name: reasons of a column name, in the order of the pattern list
_column_name_risk(col) ==
    LET col_lower == SubSeq(Lower(col), 1, Len(col))
    IN  Concat([j \in 1..Len(SENSITIVE_NAME_PATTERNS) |->
            IF Contains(SENSITIVE_NAME_PATTERNS[j], col_lower)
            THEN <<NameReason(SENSITIVE_NAME_PATTERNS[j])>> ELSE <<>>])

\* pattern.search on one text value: of the kinds of text a cell holds, only
\* an e-mail formatted value matches a PII regex (the email one)
PiiMatches(pat, c) == c.k = "email" /\ pat = <<"e","m","a","i","l">>

\* the PII patterns found in the first 1000 non-null values of a column
_detect_patterns_in_series(col) ==
    LET non_null == dropna(col)
        sample == SubSeq(non_null, 1, Min2(1000, Len(non_null)))
    IN  Concat([j \in 1..Len(PII_PATTERNS) |->
            IF \E i \in 1..Len(sample) : PiiMatches(PII_PATTERNS[j], sample[i])
            THEN <<PII_PATTERNS[j]>> ELSE <<>>])

\* the reasons collected for one column
reasons_of(col) ==
    _column_name_risk(col.name)
    \o (IF IsObjectOrString(col) THEN _detect_patterns_in_series(col) ELSE <<>>)

AnyReason(rs, words) ==
    \E i \in 1..Len(rs) : \E j \in 1..Len(words) : Contains(words[j], rs[i])

\* the weight of a column with only the first tier recognised
column_risk_first_tier_only(rs) ==
    IF AnyReason(rs, <<<<"p","a","s","s","w","o","r","d">>, <<"s","e","c","r","e","t">>, <<"t","o","k","e","n">>>>) THEN 10
    ELSE 0

\* the weight of one sensitive column, in tenths
column_risk(rs) ==
    IF AnyReason(rs, <<<<"p","a","s","s","w","o","r","d">>, <<"s","e","c","r","e","t">>, <<"t","o","k","e","n">>>>) THEN 10
    ELSE IF AnyReason(rs, <<<<"s","s","n">>, <<"c","r","e","d","i","t","_","c","a","r","d">>, <<"s","a","l","a","r","y">>>>) THEN 9
    ELSE IF AnyReason(rs, <<<<"e","m","a","i","l">>, <<"p","h","o","n","e">>>>) THEN 7
    ELSE 0

\* sensitive_map as the list of its items, in column order: the columns
\* with at least one reason, each with its reasons
sensitive(t) ==
    SelectSeq([j \in 1..n_cols(t) |->
                  [name |-> t.cols[j].name, reasons |-> reasons_of(t.cols[j])]],
              LAMBDA e : e.reasons # <<>>)

SeqToSet(xs) == {xs[i] : i \in 1..Len(xs)}

\* sensitive_map: column name -> set(reasons)
sensitive_map(sens) ==
    [name \in {sens[k].name : k \in 1..Len(sens)} |->
        SeqToSet(sens[CHOOSE k \in 1..Len(sens) : sens[k].name = name].reasons)]

RECURSIVE MaxOf(_)
MaxOf(xs) == IF xs = <<>> THEN 0 ELSE Max2(Head(xs), MaxOf(Tail(xs)))

\* max_risk, in tenths
max_risk(sens) == MaxOf([k \in 1..Len(sens) |-> column_risk(sens[k].reasons)])

\* any(df[c].nunique() == n_rows for c in df.columns)
has_unique(t) == \E j \in 1..n_cols(t) : nunique(t.cols[j]) = t.n_rows

governance_flags(t, sens) ==
    (IF t.n_rows > 0 /\ ~has_unique(t) /\ n_cols(t) > 0
       THEN <<Flag("No obvious unique identifier; re-identification risk", <<>>)>>
     ELSE <<>>)
    \o [k \in 1..Len(sens) |->
          Flag("Sensitive column", <<sens[k].name, SeqToSet(sens[k].reasons)>>)]

\* governance_risk without the min(1.0, ...) clamps
governance_risk_unclamped(sens) ==
    IF Len(sens) > 0
    THEN 3000 + 2000 * Len(sens) + 500 * max_risk(sens)
    ELSE 1000

\* governance_risk without the 0.3 that a first sensitive column adds
governance_risk_without_base(sens) ==
    IF Len(sens) > 0
    THEN Min2(10000, 2000 * Len(sens) + 500 * max_risk(sens))
    ELSE 1000

\* governance_risk, in units of 1/10000
governance_risk(sens) ==
    LET num_sensitive == Len(sens)
        risk == IF num_sensitive > 0
                THEN Min2(10000, 3000 + 2000 * num_sensitive + 500 * max_risk(sens))
                ELSE 1000
    IN  Min2(10000, risk)

\* the classification with High given from four sensitive columns on
sensitivity_classification_from_four(sens) ==
    IF max_risk(sens) >= 9 \/ Len(sens) >= 4 THEN "High"
    ELSE IF max_risk(sens) >= 5 \/ Len(sens) >= 2 THEN "Moderate"
    ELSE "Low"

sensitivity_classification(sens) ==
    IF max_risk(sens) >= 9 \/ Len(sens) >= 5 THEN "High"
    ELSE IF max_risk(sens) >= 5 \/ Len(sens) >= 2 THEN "Moderate"
    ELSE "Low"

\* evaluate_governance returning risk_flags whole, without the [:50]
evaluate_governance_uncapped(t) ==
    LET sens == sensitive(t)
    IN  [ governance_risk_score |-> governance_risk(sens),
          sensitivity_classification |-> sensitivity_classification(sens),
          sensitive_column_map |-> sensitive_map(sens),
          risk_flags |-> governance_flags(t, sens) ]

evaluate_governance(t) ==
    LET sens == sensitive(t)
        risk_flags == governance_flags(t, sens)
    IN  [ governance_risk_score |-> governance_risk(sens),
          sensitivity_classification |-> sensitivity_classification(sens),
          sensitive_column_map |-> sensitive_map(sens),
          risk_flags |-> SubSeq(risk_flags, 1, Min2(50, Len(risk_flags))) ]

(***************************************************************************)
(* Operational and temporal stability.                                     *)
(***************************************************************************)
\* s.str.match(r"^\d{4}-\d{2}-\d{2}") on str(value)
MatchesIsoPrefix(c) == c.k \in {"iso", "isoz"}

\* pd.to_datetime(value, errors="coerce"): a naive or tz-aware timestamp,
\* NaT for text that is no date
to_datetime(c) ==
    CASE c.k = "iso"  -> Cell("ts", c.v)
      [] c.k = "isoz" -> Cell("tsz", c.v)
      [] c.k \in {"ts", "tsz"} -> c
      [] OTHER -> NullCell

\* whether _find_temporal_column stops at this column
IsTemporalColumn(col) ==
    IsDatetime(col) \/ \E i \in 1..Len(col.vals) : MatchesIsoPrefix(col.vals[i])

\* the timestamps of the first temporal column, NaT dropped; found is FALSE
\* for the None the function returns when no column qualifies
_find_temporal_column(t) ==
    IF \E j \in 1..n_cols(t) : IsTemporalColumn(t.cols[j])
    THEN LET j == CHOOSE j \in 1..n_cols(t) :
                    /\ IsTemporalColumn(t.cols[j])
                    /\ \A k \in 1..(j - 1) : ~IsTemporalColumn(t.cols[k])
             parsed == [i \in 1..Len(t.cols[j].vals) |-> to_datetime(t.cols[j].vals[i])]
         IN  [found |-> TRUE, ts |-> SelectSeq(parsed, LAMBDA c : ~IsNull(c))]
    ELSE [found |-> FALSE, ts |-> <<>>]

\* sorted(xs) for integers
RECURSIVE SortInts(_)
SortInts(xs) ==
    IF xs = <<>> THEN <<>>
    ELSE LET i == CHOOSE i \in 1..Len(xs) : \A k \in 1..Len(xs) : xs[i] <= xs[k]
         IN  <<xs[i]>> \o SortInts(SubSeq(xs, 1, i - 1) \o SubSeq(xs, i + 1, Len(xs)))

\* twice the median of a non-empty sequence of integers
TwiceMedian(xs) ==
    LET sorted == SortInts(xs)
        m == Len(xs)
    IN  IF Odd(m) THEN 2 * sorted[(m + 1) \div 2]
        ELSE sorted[m \div 2] + sorted[m \div 2 + 1]

\* the days of the timestamps, sorted
sorted_days(ts) == SortInts([i \in 1..Len(ts) |-> ts[i].v])

\* ts.diff().dropna()
diffs(days) == [i \in 1..(Len(days) - 1) |-> days[i + 1] - days[i]]

\* the gaps counted whatever the median
gaps_any_median(days) ==
    LET d == diffs(days)
    IN  IF Len(days) >= 2 /\ Len(d) > 0
        THEN Len(SelectSeq(d, LAMBDA x : x > TwiceMedian(d)))
        ELSE 0

\* (diffs > 2 * diffs.median()).sum(), counted only when the median is positive
gaps(days) ==
    LET d == diffs(days)
    IN  IF Len(days) >= 2 /\ Len(d) > 0 /\ TwiceMedian(d) > 0
        THEN Len(SelectSeq(d, LAMBDA x : x > TwiceMedian(d)))
        ELSE 0

\* now - latest raises TypeError when latest is tz-aware (pd.Timestamp.now()
\* is naive)
operational_raises(t) ==
    LET ts == _find_temporal_column(t).ts
    IN  \E i \in 1..Len(ts) :
            /\ ts[i].k = "tsz"
            /\ \A k \in 1..Len(ts) : ts[k].v <= ts[i].v

\* the initial score and empty flag list returned as they stand
no_temporal_result_unpenalised ==
    [ temporal_reliability_score |-> 10000,
      operational_risk_flags |-> <<>>,
      has_temporal_column |-> FALSE,
      latest_update_lag_days |-> <<>> ]

\* the result returned when ts is None or empty
no_temporal_result ==
    [ temporal_reliability_score |-> 5000,
      operational_risk_flags |-> <<Flag("No temporal column detected", <<>>)>>,
      has_temporal_column |-> FALSE,
      latest_update_lag_days |-> <<>> ]

evaluate_operational(t, clock) ==
    LET found == _find_temporal_column(t)
        ts == found.ts
    IN  IF ~found.found \/ Len(ts) = 0
        THEN no_temporal_result
        ELSE
          LET days == sorted_days(ts)
              latest == days[Len(days)]
              latest_lag_days == clock - latest
              p_lag == IF latest_lag_days > 365 THEN 4000
                       ELSE IF latest_lag_days > 90 THEN 2000
                       ELSE IF latest_lag_days > 30 THEN 1000
                       ELSE 0
              p_gap == IF gaps(days) > 0 THEN Min2(2000, 500 * Min2(gaps(days), 4)) ELSE 0
          IN  [ temporal_reliability_score |-> Clamp01(10000 - p_lag - p_gap),
                operational_risk_flags |->
                    (IF latest_lag_days > 365
                       THEN <<Flag("Data very stale: over 1 year old", <<>>)>>
                     ELSE IF latest_lag_days > 90
                       THEN <<Flag("Data may be stale: over 90 days", <<>>)>>
                     ELSE IF latest_lag_days > 30
                       THEN <<Flag("Moderate lag: over 30 days", <<>>)>>
                     ELSE <<>>)
                    \o (IF gaps(days) > 0 THEN <<Flag("Time gaps detected", <<>>)>> ELSE <<>>),
                has_temporal_column |-> TRUE,
                latest_update_lag_days |-> <<latest_lag_days>> ]

(***************************************************************************)
(* Logical & Domain Consistency.                                           *)
(***************************************************************************)
\* round(num / den, 0) for num >= 0, den > 0 (ties to even, as round())
RoundDiv(num, den) ==
    LET q == num \div den
        r == num % den
    IN  IF 2 * r > den THEN q + 1
        ELSE IF 2 * r < den THEN q
        ELSE IF q % 2 = 0 THEN q ELSE q + 1

REVENUE_PATTERNS == <<<<"r","e","v","e","n","u","e">>, <<"s","a","l","e","s">>, <<"a","m","o","u","n","t">>>>
PROFIT_PATTERNS == <<<<"p","r","o","f","i","t">>, <<"n","e","t","_","i","n","c","o","m","e">>>>
QTY_PATTERNS == <<<<"q","t","y">>, <<"q","u","a","n","t","i","t","y">>, <<"c","o","u","n","t">>>>
ID_PATTERNS == <<<<"i","d">>, <<"t","r","a","n","s","a","c","t","i","o","n">>, <<"t","x","n">>, <<"k","e","y">>>>

\* [c for c in df.columns if _col_like(c, patterns) and c in numeric.columns]
numeric_like(t, patterns) ==
    SelectSeq(t.cols, LAMBDA col : _col_like(col.name, patterns) /\ IsNumber(col))

\* (df[c] < 0).sum() > 0
has_negative(col) == \E i \in 1..Len(col.vals) : ~IsNull(col.vals[i]) /\ col.vals[i].v < 0

\* (df[pr_c] > df[rev_c]).sum() > 0
exceeds(pr, rev) ==
    \E i \in 1..Len(pr.vals) :
        ~IsNull(pr.vals[i]) /\ ~IsNull(rev.vals[i]) /\ pr.vals[i].v > rev.vals[i].v

\* the id-like columns whose duplicates are checked: text or integer typed
id_checked(t) ==
    SelectSeq(t.cols, LAMBDA col :
        /\ _col_like(col.name, ID_PATTERNS)
        /\ nunique(col) > 0
        /\ (col.dtype \in {"object", "string"} \/ col.dtype \in {"int64", "int32"}))

\* The checks run, in order, each [violation, failed]: one entry per check.
logical_checks(t) ==
    LET revenue_cols == numeric_like(t, REVENUE_PATTERNS)
        profit_cols == numeric_like(t, PROFIT_PATTERNS)
        qty_cols == numeric_like(t, QTY_PATTERNS)
        id_cols == id_checked(t)
        Check(about, failed) == [violation |-> about, failed |-> failed]
    IN  [k \in 1..Len(revenue_cols) |->
            Check(Flag("has negative values (revenue-like)", revenue_cols[k].name),
                  has_negative(revenue_cols[k]))]
        \o Concat([i \in 1..Len(revenue_cols) |->
              Concat([j \in 1..Len(profit_cols) |->
                  IF revenue_cols[i].name = profit_cols[j].name THEN <<>>
                  ELSE <<Check(Flag("profit > revenue in some rows",
                                    <<profit_cols[j].name, revenue_cols[i].name>>),
                               exceeds(profit_cols[j], revenue_cols[i]))>>])])
        \o [k \in 1..Len(qty_cols) |->
              Check(Flag("has negative values", qty_cols[k].name), has_negative(qty_cols[k]))]
        \o [k \in 1..Len(id_cols) |->
              Check(Flag("has duplicates (expected unique)", id_cols[k].name),
                    series_duplicated_sum(id_cols[k]) > 0)]

total_checks(checks) == Len(checks)
\* passed incremented for every check, violation or not
passed_every_check(checks) == Len(checks)

passed(checks) == Len(SelectSeq(checks, LAMBDA c : ~c.failed))
violations(checks) ==
    LET failed == SelectSeq(checks, LAMBDA c : c.failed)
    IN  [k \in 1..Len(failed) |-> failed[k].violation]

\* round(violation_rate, 4), in units of 1/10000
violation_rate(checks) ==
    IF total_checks(checks) = 0 THEN 0
    ELSE RoundDiv(10000 * (total_checks(checks) - passed(checks)), total_checks(checks))

\* round(min(1.0, integrity), 4), in units of 1/10000:
\* integrity = max(0.0, 1.0 - violation_rate * 1.5)
logical_integrity(checks) ==
    IF total_checks(checks) = 0 THEN 8500
    ELSE LET num == 10000 * total_checks(checks)
                    - 15000 * (total_checks(checks) - passed(checks))
         IN  Min2(10000, IF num <= 0 THEN 0 ELSE RoundDiv(num, total_checks(checks)))

evaluate_logical(t) ==
    LET checks == logical_checks(t)
        violations_summary == violations(checks)
    IN  [ logical_integrity_score |-> logical_integrity(checks),
          violation_rate |-> violation_rate(checks),
          violations_summary |->
              SubSeq(violations_summary, 1, Min2(30, Len(violations_summary))) ]

(***************************************************************************)
(* Analytical Utility & Preparation.                                       *)
(***************************************************************************)
\* the build with scikit-learn importable
HAS_SKLEARN == TRUE

AllRows(col) == [i \in 1..Len(col.vals) |-> i]
NonNullRows(col) == SelectSeq(AllRows(col), LAMBDA i : ~IsNull(col.vals[i]))
\* m * Sum(x^2) - Sum(x)^2 over the non-null values: m*(m-1) times the
\* sample variance
SumSq(col) == CoMoment(col, col, NonNullRows(col))
SumOf(col) == Sum([k \in 1..Len(dropna(col)) |-> dropna(col)[k].v])

\* Series.std() > 0 (std is NaN with fewer than two values)
std_positive(col) == Len(dropna(col)) >= 2 /\ SumSq(col) > 0

\* the variance-sufficiency test of one numeric column:
\*   std == 0, or std < mean * 0.01 with mean != 0
\* (std*std < mean*mean/10000 is 10000*m*SumSq < (m-1)*Sum^2, mean > 0)
is_low_variance(col) ==
    LET m == Len(dropna(col))
    IN  /\ m >= 2
        /\ \/ SumSq(col) = 0
           \/ /\ SumOf(col) > 0
              /\ 10000 * m * SumSq(col) < (m - 1) * SumOf(col) * SumOf(col)

\* abs(scipy.stats.skew(x.dropna())) > 2, with d = m*x - Sum(x):
\* skew^2 = m * Sum(d^3)^2 / Sum(d^2)^3, NaN when the values are constant
\* or absent.  m*A*A > 4*B*B*B is compared as 4*B <= (m*A*A - 1) \div (B*B).
is_high_skew(col) ==
    LET x == dropna(col)
        m == Len(x)
        d == [k \in 1..m |-> m * x[k].v - SumOf(col)]
        A == Sum([k \in 1..m |-> d[k] * d[k] * d[k]])
        B == Sum([k \in 1..m |-> d[k] * d[k]])
    IN  /\ m >= 1
        /\ B > 0
        /\ A # 0
        /\ 4 * B <= (m * A * A - 1) \div (B * B)

\* the text column adds the low-diversity 0.05:
\*   max_ent > 0 and ent / max_ent < 0.1
\* with no value or one distinct value max_ent is 1 and ent is 0 or
\* -log2(1 + 1e-10), so the test passes; with two or more distinct values
\* among fewer than 78 values the ratio is at least 0.1 (its least value,
\* that of one value differing from all the others, first falls below 0.1
\* at 78 values).
is_low_diversity(col) ==
    \/ nunique(col) <= 1
    \/ /\ nunique(col) = 2
       /\ Len(dropna(col)) >= 78
       /\ top_count([vals |-> dropna(col)]) = Len(dropna(col)) - 1

MatrixMinor(M, j) ==
    [r \in 1..(Len(M) - 1) |->
        [c \in 1..(Len(M) - 1) |-> M[r + 1][IF c < j THEN c ELSE c + 1]]]
\* the determinant, expanded along the first row
RECURSIVE Det(_)
Det(M) ==
    IF Len(M) = 0 THEN 1
    ELSE IF Len(M) = 1 THEN M[1][1]
    ELSE Sum([j \in 1..Len(M) |->
            (IF Odd(j) THEN 1 ELSE -1) * M[1][j] * Det(MatrixMinor(M, j))])

\* the matrix of co-moments of complete columns (m*m times the covariances)
Gram(cols) ==
    [i \in 1..Len(cols) |->
        [j \in 1..Len(cols) |-> CoMoment(cols[i], cols[j], AllRows(cols[i]))]]

\* a maximal linearly independent subsequence of the (centred) predictors
RECURSIVE Basis(_, _)
Basis(chosen, rest) ==
    IF rest = <<>> THEN chosen
    ELSE IF Det(Gram(Append(chosen, Head(rest)))) > 0
         THEN Basis(Append(chosen, Head(rest)), Tail(rest))
         ELSE Basis(chosen, Tail(rest))

\* LinearRegression().fit(X, y).score(X, y) gives VIF = 1/(1 - r2) > 10:
\* r2 = 1 - Det(Gram(B + y)) / (Syy * Det(Gram(B))) for a basis B of X, and
\* r2 = 1.0 (VIF infinite) when y is constant
vif_above_10(y, X) ==
    LET B == Basis(<<>>, X)
        Syy == CoMoment(y, y, AllRows(y))
    IN  \/ Syy = 0
        \/ 10 * Det(Gram(Append(B, y))) < Syy * Det(Gram(B))

\* the columns _vif reports with VIF > 10, in column order
high_vif(t) ==
    LET num == SelectSeq(select_number(t), LAMBDA col : ~isna_all(col))
    IN  IF ~HAS_SKLEARN \/ Len(num) < 2 THEN <<>>
        ELSE Concat([i \in 1..Len(num) |->
                LET others == SubSeq(num, 1, i - 1) \o SubSeq(num, i + 1, Len(num))
                    X == SelectSeq(others, std_positive)
                IN  IF X = <<>> THEN <<>>
                    \* fit raises ValueError on NaN: the column is skipped
                    ELSE IF ~notna_all(num[i]) \/ \E k \in 1..Len(X) : ~notna_all(X[k])
                         THEN <<>>
                    ELSE IF vif_above_10(num[i], X) THEN <<num[i].name>> ELSE <<>>])

low_var(t) ==
    Concat([j \in 1..Len(select_number(t)) |->
        IF is_low_variance(select_number(t)[j]) THEN <<select_number(t)[j].name>> ELSE <<>>])

high_skew(t) ==
    Concat([j \in 1..Len(select_number(t)) |->
        IF ~is_low_variance(select_number(t)[j]) /\ is_high_skew(select_number(t)[j])
        THEN <<select_number(t)[j].name>> ELSE <<>>])

low_diversity_count(t) ==
    Len(SelectSeq(t.cols, LAMBDA col : IsObjectOrString(col) /\ is_low_diversity(col)))

\* IsolationForest(random_state=42, contamination=0.1) on the median-imputed
\* numeric columns: unset (<<>>) without scikit-learn, with 10 rows or fewer,
\* or when the fit raises (an all-NaN column leaves NaN in X); otherwise the
\* share of rows predicted -1, a fixed function of the table that is not
\* computed here
anomaly_density(t) ==
    IF /\ HAS_SKLEARN
       /\ t.n_rows > 10
       /\ Len(select_number(t)) >= 1
       /\ \A j \in 1..Len(select_number(t)) : ~isna_all(select_number(t)[j])
    THEN <<"IsolationForest(random_state=42).predict">>
    ELSE <<>>

\* the early return on numeric.empty never taken
numeric_never_empty(t) == FALSE

\* numeric.empty: no numeric column, or no row
numeric_empty(t) == Len(select_number(t)) = 0 \/ t.n_rows = 0

\* utility_score, clamped, in units of 1/10000
utility_score(lv, hs, hv) ==
    Clamp01(10000 - 1000 * Min2(Len(lv), 5)
                  - 500 * Min2(Len(hs), 4)
                  - 1000 * Min2(Len(hv), 3))

\* round(min(1.0, prep_complexity), 4), in units of 1/10000
prep_complexity(t, lv, hs, hv) ==
    LET base == 1000 * Len(lv) + 500 * Len(hs)
                + 500 * low_diversity_count(t) + 1000 * Len(hv)
    IN  IF n_cells(t) > 0
        THEN Min2(10000, RoundDiv(base * n_cells(t) + 5000 * isna_sum(t), n_cells(t)))
        ELSE Min2(10000, base)

evaluate_analytical(t) ==
    IF numeric_empty(t)
    THEN [ analytics_utility_score |-> 5000,
           preparation_complexity_score |-> 5000,
           low_variance_columns |-> <<>>,
           high_skew_columns |-> <<>>,
           high_vif_columns |-> <<>>,
           anomaly_density |-> <<>> ]
    ELSE LET lv == low_var(t)
             hs == high_skew(t)
             hv == high_vif(t)
         IN  [ analytics_utility_score |-> utility_score(lv, hs, hv),
               preparation_complexity_score |-> prep_complexity(t, lv, hs, hv),
               low_variance_columns |-> lv,
               high_skew_columns |-> hs,
               high_vif_columns |-> hv,
               anomaly_density |-> anomaly_density(t) ]

(***************************************************************************)
(* Trust aggregation (EDTI).                                               *)
(***************************************************************************)
_governance_to_trust_component(gr) == Max2(0, 10000 - gr.governance_risk_score)

\* the preparation burden taken as the component, without the inversion
_prep_burden_as_component(prep_score) == Max2(0, Min2(10000, prep_score))

_prep_burden_to_component(prep_score) == Max2(0, 10000 - prep_score)

\* the weight table with the structural and governance weights exchanged
weights_exchanged ==
    [ structural |-> 20, governance |-> 22, operational |-> 18,
      logical |-> 18, analytical_utility |-> 12, preparation_readiness |-> 10 ]

\* the weight table, in hundredths
weights ==
    [ structural |-> 22, governance |-> 20, operational |-> 18,
      logical |-> 18, analytical_utility |-> 12, preparation_readiness |-> 10 ]

\* the weighted composite before clamping and rounding, in units of 1/1000000
weighted_sum(structural, governance, operational, logical, analytical) ==
      weights.structural * structural.structural_integrity_score
    + weights.governance * _governance_to_trust_component(governance)
    + weights.operational * operational.temporal_reliability_score
    + weights.logical * logical.logical_integrity_score
    + weights.analytical_utility * analytical.analytics_utility_score
    + weights.preparation_readiness
        * _prep_burden_to_component(analytical.preparation_complexity_score)

\* round(max(0.0, min(1.0, edti)), 4), in units of 1/10000
edti_of(sum) == RoundDiv(Max2(0, Min2(1000000, sum)), 100)

\* the tiers with exclusive lower bounds
tier_of_exclusive(edti) ==
    IF edti > 8000 THEN "Decision-Ready"
    ELSE IF edti > 6000 THEN "Review Recommended"
    ELSE IF edti > 4000 THEN "Risk Present"
    ELSE "Not Trustworthy"

\* the tier of a rounded EDTI
tier_of(edti) ==
    IF edti >= 8000 THEN "Decision-Ready"
    ELSE IF edti >= 6000 THEN "Review Recommended"
    ELSE IF edti >= 4000 THEN "Risk Present"
    ELSE "Not Trustworthy"

compute_edti(structural, governance, operational, logical, analytical) ==
    LET g_trust == _governance_to_trust_component(governance)
        prep_trust == _prep_burden_to_component(analytical.preparation_complexity_score)
        edti == edti_of(weighted_sum(structural, governance, operational,
                                     logical, analytical))
    IN  [ edti_score |-> edti,
          trust_tier |-> tier_of(edti),
          component_scores |->
            [ structural |-> structural.structural_integrity_score,
              governance |-> g_trust,
              temporal |-> operational.temporal_reliability_score,
              logical |-> logical.logical_integrity_score,
              utility |-> analytical.analytics_utility_score,
              preparation |-> prep_trust ],
          risk_heatmap |->
            [ structural |-> 10000 - structural.structural_integrity_score,
              governance |-> governance.governance_risk_score,
              operational |-> 10000 - operational.temporal_reliability_score,
              logical |-> 10000 - logical.logical_integrity_score,
              analytical |-> 10000 - analytical.analytics_utility_score,
              preparation |-> analytical.preparation_complexity_score ] ]

(***************************************************************************)
(* TrustEngine.evaluate as a state machine.                                *)
(*                                                                         *)
(* df        the table of the profile                                      *)
(* now       the wall clock, in days                                       *)
(* parallel  FALSE: the evaluators run in the order of the source;         *)
(*           TRUE: they run in any order over the shared profile           *)
(* res       the results of the call in progress, <<>> where not yet set   *)
(* err       the exception that left evaluate, "none" if none did          *)
(* clk       the clock readings taken by evaluate_operational, per call    *)
(* bundles   the EvaluationBundles returned so far                         *)
(***************************************************************************)
Layers == {"structural", "governance", "operational", "logical", "analytical"}

Unset == [ structural |-> <<>>, governance |-> <<>>, operational |-> <<>>,
           logical |-> <<>>, analytical |-> <<>>, trust |-> <<>> ]

Done(l) == res[l] # <<>>

Idle == res = Unset

\* the call may run the next evaluator
Running == err = "none" /\ Len(bundles) < MaxCalls

\* EvaluationBundle(structural=..., ..., trust=trust)
EvaluationBundle(r) ==
    [ structural |-> r.structural[1], governance |-> r.governance[1],
      operational |-> r.operational[1], logical |-> r.logical[1],
      analytical |-> r.analytical[1], trust |-> r.trust[1] ]

\* the bundle TrustEngine.evaluate returns for a table when the clock reads
\* `clock`, the evaluators taken in the order of the source
evaluate(t, clock) ==
    LET structural == evaluate_structural(t)
        governance == evaluate_governance(t)
        operational == evaluate_operational(t, clock)
        logical == evaluate_logical(t)
        analytical == evaluate_analytical(t)
    IN  [ structural |-> structural, governance |-> governance,
          operational |-> operational, logical |-> logical,
          analytical |-> analytical,
          trust |-> compute_edti(structural, governance, operational,
                                 logical, analytical) ]

Init ==
    /\ df \in Tables
    /\ now = 0
    /\ parallel = FALSE
    /\ res = Unset
    /\ err = "none"
    /\ clk = <<>>
    /\ bundles = <<>>

\* evaluate_structural appending to a flag list that outlives the call
RunStructural_shared_flags ==
    /\ Running
    /\ ~Done("structural")
    /\ res' = [res EXCEPT !.structural =
            <<[evaluate_structural(df) EXCEPT !.structural_risk_flags =
                (IF bundles = <<>> THEN <<>>
                 ELSE bundles[Len(bundles)].structural.structural_risk_flags) \o @]>>]
    /\ UNCHANGED <<df, now, parallel, err, clk, bundles>>

RunStructural ==
    /\ Running
    /\ ~Done("structural")
    /\ res' = [res EXCEPT !.structural = <<evaluate_structural(df)>>]
    /\ UNCHANGED <<df, now, parallel, err, clk, bundles>>

\* evaluate_governance taking the candidate keys from the structural result
\* when that result is already there
RunGovernance_uses_structural ==
    /\ Running
    /\ parallel \/ Done("structural")
    /\ ~Done("governance")
    /\ res' = [res EXCEPT !.governance =
            <<[evaluate_governance(df) EXCEPT !.risk_flags =
                IF /\ Done("structural")
                   /\ res.structural[1].candidate_primary_keys = <<>>
                   /\ df.n_rows > 0 /\ n_cols(df) > 0
                   /\ has_unique(df)
                THEN <<Flag("No obvious unique identifier; re-identification risk", <<>>)>> \o @
                ELSE @]>>]
    /\ UNCHANGED <<df, now, parallel, err, clk, bundles>>

RunGovernance ==
    /\ Running
    /\ parallel \/ Done("structural")
    /\ ~Done("governance")
    /\ res' = [res EXCEPT !.governance = <<evaluate_governance(df)>>]
    /\ UNCHANGED <<df, now, parallel, err, clk, bundles>>

\* evaluate_operational reads pd.Timestamp.now(); subtracting a tz-aware
\* latest timestamp from it raises TypeError, which leaves evaluate
RunOperational ==
    /\ Running
    /\ parallel \/ Done("governance")
    /\ ~Done("operational")
    /\ clk' = Append(clk, now)
    /\ \/ /\ operational_raises(df)
          /\ err' = "TypeError"
          /\ res' = Unset
       \/ /\ ~operational_raises(df)
          /\ err' = err
          /\ res' = [res EXCEPT !.operational = <<evaluate_operational(df, now)>>]
    /\ UNCHANGED <<df, now, parallel, bundles>>

RunLogical ==
    /\ Running
    /\ parallel \/ Done("operational")
    /\ ~Done("logical")
    /\ res' = [res EXCEPT !.logical = <<evaluate_logical(df)>>]
    /\ UNCHANGED <<df, now, parallel, err, clk, bundles>>

RunAnalytical ==
    /\ Running
    /\ parallel \/ Done("logical")
    /\ ~Done("analytical")
    /\ res' = [res EXCEPT !.analytical = <<evaluate_analytical(df)>>]
    /\ UNCHANGED <<df, now, parallel, err, clk, bundles>>

ComputeEdti ==
    /\ err = "none"
    /\ \A l \in Layers : Done(l)
    /\ ~Done("trust")
    /\ res' = [res EXCEPT !.trust =
                <<compute_edti(res.structural[1], res.governance[1],
                               res.operational[1], res.logical[1],
                               res.analytical[1])>>]
    /\ UNCHANGED <<df, now, parallel, err, clk, bundles>>

Return ==
    /\ Running
    /\ Done("trust")
    /\ bundles' = Append(bundles, EvaluationBundle(res))
    /\ res' = Unset
    /\ UNCHANGED <<df, now, parallel, err, clk>>

\* a day passes between two calls (a call takes far less than a day)
Tick ==
    /\ Idle
    /\ now < MaxTicks
    /\ now' = now + 1
    /\ UNCHANGED <<df, parallel, res, err, clk, bundles>>

Next ==
    \/ RunStructural
    \/ RunGovernance
    \/ RunOperational
    \/ RunLogical
    \/ RunAnalytical
    \/ ComputeEdti
    \/ Return
    \/ Tick

Spec == Init /\ [][Next]_vars

\* the evaluators fanned out over one shared profile, in any order
FanOutTables == {t \in Tables : t.n_rows = MaxRows /\ n_cols(t) = MaxCols}

InitFanOut ==
    /\ df \in FanOutTables
    /\ now = 0
    /\ parallel = TRUE
    /\ res = Unset
    /\ err = "none"
    /\ clk = <<>>
    /\ bundles = <<>>

SpecFanOut == InitFanOut /\ [][Next]_vars

(***************************************************************************)
(* compute_edti on its own: the five layer results are drawn from grids of *)
(* scores, the aggregator is applied, and applied again to the same        *)
(* results.                                                                *)
(***************************************************************************)
\* scores on the tier boundaries
ScoreGrid == {0, 4000, 6000, 8000, 10000}
\* risk and burden scores: on and next to the boundaries, and above 1
RiskGrid == {0, 2000, 4000, 6000, 10000, 12000}
BurdenGrid == {0, 2001, 2010, 4001, 6001, 12000}

StructuralOf(s) ==
    [ structural_integrity_score |-> s, structural_risk_flags |-> <<>>,
      redundant_feature_list |-> <<>>, candidate_primary_keys |-> <<>> ]
GovernanceOf(g) ==
    [ governance_risk_score |-> g, sensitivity_classification |-> "Low",
      sensitive_column_map |-> <<>>, risk_flags |-> <<>> ]
OperationalOf(o) ==
    [ temporal_reliability_score |-> o, operational_risk_flags |-> <<>>,
      has_temporal_column |-> TRUE, latest_update_lag_days |-> <<0>> ]
LogicalOf(l) ==
    [ logical_integrity_score |-> l, violation_rate |-> 0,
      violations_summary |-> <<>> ]
AnalyticalOf(u, p) ==
    [ analytics_utility_score |-> u, preparation_complexity_score |-> p,
      low_variance_columns |-> <<>>, high_skew_columns |-> <<>>,
      high_vif_columns |-> <<>>, anomaly_density |-> <<>> ]

InitEdti ==
    /\ df = [n_rows |-> 0, cols |-> <<>>]
    /\ now = 0
    /\ parallel = FALSE
    /\ \E s \in ScoreGrid, g \in RiskGrid, o \in ScoreGrid, l \in ScoreGrid,
          u \in ScoreGrid, p \in BurdenGrid :
            res = [ structural |-> <<StructuralOf(s)>>,
                    governance |-> <<GovernanceOf(g)>>,
                    operational |-> <<OperationalOf(o)>>,
                    logical |-> <<LogicalOf(l)>>,
                    analytical |-> <<AnalyticalOf(u, p)>>,
                    trust |-> <<>> ]
    /\ err = "none"
    /\ clk = <<>>
    /\ bundles = <<>>

\* compute_edti called once more on the same five results
ComputeAgain ==
    /\ Running
    /\ Done("trust")
    /\ bundles' = Append(bundles,
            EvaluationBundle([res EXCEPT !.trust =
                <<compute_edti(res.structural[1], res.governance[1],
                               res.operational[1], res.logical[1],
                               res.analytical[1])>>]))
    /\ UNCHANGED <<df, now, parallel, res, err, clk>>

NextEdti ==
    \/ ComputeEdti
    \/ ComputeAgain

SpecEdti == InitEdti /\ [][NextEdti]_vars

(***************************************************************************)
(* Properties.                                                             *)
(***************************************************************************)
InUnit(x) == x \in 0..10000

ScoresInUnit(b) ==
    /\ InUnit(b.structural.structural_integrity_score)
    /\ InUnit(b.governance.governance_risk_score)
    /\ InUnit(b.operational.temporal_reliability_score)
    /\ InUnit(b.logical.logical_integrity_score)
    /\ InUnit(b.analytical.analytics_utility_score)
    /\ InUnit(b.analytical.preparation_complexity_score)
    /\ InUnit(b.trust.edti_score)

\* C1: every score TrustEngine.evaluate produces, in a layer result as soon
\* as the layer returns it and in every returned bundle, lies in [0,1].
C1_ScoresInUnitInterval ==
    /\ Done("structural") => InUnit(res.structural[1].structural_integrity_score)
    /\ Done("governance") => InUnit(res.governance[1].governance_risk_score)
    /\ Done("operational") => InUnit(res.operational[1].temporal_reliability_score)
    /\ Done("logical") => InUnit(res.logical[1].logical_integrity_score)
    /\ Done("analytical") =>
            /\ InUnit(res.analytical[1].analytics_utility_score)
            /\ InUnit(res.analytical[1].preparation_complexity_score)
    /\ Done("trust") => InUnit(res.trust[1].edti_score)
    /\ \A i \in 1..Len(bundles) : ScoresInUnit(bundles[i])

\* a bundle was returned whose governance risk sits on the upper clamp
\* (0.3 + 0.2*2 + 0.5*1.0 = 1.2 before it)
C1_Witness ==
    /\ Len(bundles) >= 1
    /\ bundles[1].governance.governance_risk_score = 10000
    /\ 3000 + 2000 * Len(sensitive(df)) + 500 * max_risk(sensitive(df)) = 12000

\* 0.22*structural + 0.20*max(0, 1 - governance_risk) + 0.18*operational
\* + 0.18*logical + 0.12*analytics_utility
\* + 0.10*max(0, 1 - preparation_complexity), clamped to [0,1], in units of
\* 1/1000000, of the five results held in res
StatedComposite ==
    LET sum == 22 * res.structural[1].structural_integrity_score
             + 20 * Max2(0, 10000 - res.governance[1].governance_risk_score)
             + 18 * res.operational[1].temporal_reliability_score
             + 18 * res.logical[1].logical_integrity_score
             + 12 * res.analytical[1].analytics_utility_score
             + 10 * Max2(0, 10000 - res.analytical[1].preparation_complexity_score)
    IN  Max2(0, Min2(1000000, sum))

\* C2: edti_score is the stated weighted sum of the five layer results,
\* clamped to [0,1] and rounded to 4 decimals (it is a multiple of 0.0001
\* within half a unit of the clamped sum), and compute_edti called again on
\* the same results returns the same score and tier.
C2_EdtiIsWeightedSum ==
    Done("trust") =>
        /\ res.trust[1].edti_score \in 0..10000
        /\ 100 * res.trust[1].edti_score - 50 <= StatedComposite
        /\ StatedComposite <= 100 * res.trust[1].edti_score + 50
        /\ \A i \in 1..Len(bundles) :
              /\ bundles[i].trust.edti_score = res.trust[1].edti_score
              /\ bundles[i].trust.trust_tier = res.trust[1].trust_tier

\* compute_edti was called twice on results where 1 - governance_risk is
\* negative and the sum is no multiple of 0.0001
C2_Witness ==
    /\ Done("trust")
    /\ Len(bundles) = 1
    /\ res.governance[1].governance_risk_score > 10000
    /\ StatedComposite % 100 # 0
    /\ StatedComposite > 0

\* the tier the stated thresholds give a value x, with `unit` the size of 1
StatedTier(x, unit) ==
    IF 100 * x >= 80 * unit THEN "Decision-Ready"
    ELSE IF 100 * x >= 60 * unit THEN "Review Recommended"
    ELSE IF 100 * x >= 40 * unit THEN "Risk Present"
    ELSE "Not Trustworthy"

\* C3: the trust tier follows the inclusive lower bounds 0.80, 0.60 and 0.40
\* on edti_score, the composite after it is rounded to 4 decimals; an
\* edti_score just below a boundary (0.7999, 0.5999, 0.3999) is never given
\* the higher tier.
C3_TierFollowsRoundedScore ==
    Done("trust") =>
        /\ res.trust[1].trust_tier = StatedTier(res.trust[1].edti_score, 10000)
        /\ res.trust[1].edti_score = 7999 => res.trust[1].trust_tier = "Review Recommended"
        /\ res.trust[1].edti_score = 5999 => res.trust[1].trust_tier = "Risk Present"
        /\ res.trust[1].edti_score = 3999 => res.trust[1].trust_tier = "Not Trustworthy"

\* the composite is 0.79999, which is stored as edti_score 0.8
C3_Witness ==
    /\ Done("trust")
    /\ StatedComposite = 799990
    /\ res.trust[1].edti_score = 8000

\* C3 as stated: the tier follows the thresholds on the composite itself, so
\* that a composite of 0.79999, 0.59999 or 0.39999 is not given the higher
\* tier.
C3_TierFollowsComposite ==
    Done("trust") => res.trust[1].trust_tier = StatedTier(StatedComposite, 1000000)

\* C4: two evaluations of the same unchanged profile yield identical
\* structural, governance, logical and analytical results at any two
\* moments, and identical operational results and EDTI whenever
\* evaluate_operational read the same current time in both.
C4_SameResultsForSameClock ==
    \A i, j \in 1..Len(bundles) :
        /\ bundles[i].structural = bundles[j].structural
        /\ bundles[i].governance = bundles[j].governance
        /\ bundles[i].logical = bundles[j].logical
        /\ bundles[i].analytical = bundles[j].analytical
        /\ clk[i] = clk[j] => bundles[i] = bundles[j]

\* the same profile, with a temporal column, was evaluated on two different
\* days
C4_Witness ==
    /\ Len(bundles) = 2
    /\ clk[1] # clk[2]
    /\ bundles[1].operational.has_temporal_column
    /\ bundles[2].operational.has_temporal_column

\* C4 as stated, in the particulars it names: two evaluations of the same
\* profile at any two moments have the same temporal_reliability_score, the
\* same operational flags and the same EDTI.
C4_SameAtAnyTwoMoments ==
    \A i, j \in 1..Len(bundles) :
        /\ bundles[i].operational.temporal_reliability_score
             = bundles[j].operational.temporal_reliability_score
        /\ bundles[i].operational.operational_risk_flags
             = bundles[j].operational.operational_risk_flags
        /\ bundles[i].trust.edti_score = bundles[j].trust.edti_score

\* C5: no evaluator raises on a well-formed profile, so no exception leaves
\* TrustEngine.evaluate.
C5_EvaluateNeverRaises == err = "none"

\* layer l returned its result in this step
Returned(l) == res[l] = <<>> /\ res'[l] # <<>>

\* C6: in whatever order the five evaluators run over the shared profile, no
\* step changes the profile's table, each evaluator returns the result it
\* returns in the order of the source, the aggregator runs only once all
\* five results exist, and the bundle returned is the one the order of the
\* source produces.
C6_NoOrderingDependency ==
    [][ /\ df' = df
        /\ Returned("structural") => res'.structural[1] = evaluate_structural(df)
        /\ Returned("governance") => res'.governance[1] = evaluate_governance(df)
        /\ Returned("operational") =>
                res'.operational[1] = evaluate_operational(df, now)
        /\ Returned("logical") => res'.logical[1] = evaluate_logical(df)
        /\ Returned("analytical") => res'.analytical[1] = evaluate_analytical(df)
        /\ Returned("trust") => \A l \in Layers : Done(l)
        /\ bundles' # bundles =>
                bundles' = Append(bundles, evaluate(df, clk[Len(clk)]))
      ]_vars

\* after a first bundle, a call is under way in which the analytical and
\* logical evaluators have returned before the structural and governance
\* evaluators started
C6_Witness ==
    /\ parallel
    /\ Len(bundles) = 1
    /\ Done("analytical") /\ Done("logical")
    /\ ~Done("structural") /\ ~Done("governance")

\* every value of the column is the same value, none missing
AllIdentical(col) ==
    /\ Len(col.vals) >= 1
    /\ \A i \in 1..Len(col.vals) : ~IsNull(col.vals[i]) /\ col.vals[i] = col.vals[1]

\* C7: once evaluate_structural has returned for a table of more than one
\* row, every column whose values are all identical, whatever its type, has
\* a "Constant column" flag and is in redundant_feature_list.
C7_ConstantColumnReported ==
    (Done("structural") /\ df.n_rows > 1) =>
        \A j \in 1..n_cols(df) :
            AllIdentical(df.cols[j]) =>
                /\ InSeq(Flag("Constant column", df.cols[j].name),
                         res.structural[1].structural_risk_flags)
                /\ InSeq(df.cols[j].name, res.structural[1].redundant_feature_list)

\* C8: for a table with zero numeric columns evaluate_analytical returns
\* exactly utility 0.5 and preparation 0.5, the three column lists empty and
\* anomaly_density unset, whatever its text columns and missing values.
C8_NoNumericColumnsDefault ==
    (Done("analytical") /\ \A j \in 1..n_cols(df) : ~IsNumber(df.cols[j])) =>
        /\ res.analytical[1].analytics_utility_score = 5000
        /\ res.analytical[1].preparation_complexity_score = 5000
        /\ res.analytical[1].low_variance_columns = <<>>
        /\ res.analytical[1].high_skew_columns = <<>>
        /\ res.analytical[1].high_vif_columns = <<>>
        /\ res.analytical[1].anomaly_density = <<>>

\* evaluate_analytical has returned for a table of more than 10 rows whose
\* columns are all text, one of them single-valued, one with missing values
C8_Witness ==
    /\ Done("analytical")
    /\ df.n_rows > 10
    /\ n_cols(df) >= 2
    /\ \A j \in 1..n_cols(df) : IsObject(df.cols[j])
    /\ \E j \in 1..n_cols(df) : nunique(df.cols[j]) = 1
    /\ isna_sum(df) > 0

\* no column is of a date/time type and no text value starts like an ISO date
NoTemporalColumn(t) ==
    \A j \in 1..n_cols(t) :
        /\ ~IsDatetime(t.cols[j])
        /\ \A i \in 1..Len(t.cols[j].vals) : ~MatchesIsoPrefix(t.cols[j].vals[i])

\* C9: for a table with no detectable temporal column evaluate_operational
\* returns score 0.5, has_temporal_column false, latest_update_lag_days
\* unset and a flag list of the one entry reporting the absence.
C9_NoTemporalColumnDefault ==
    (Done("operational") /\ NoTemporalColumn(df)) =>
        /\ res.operational[1].temporal_reliability_score = 5000
        /\ res.operational[1].has_temporal_column = FALSE
        /\ res.operational[1].latest_update_lag_days = <<>>
        /\ res.operational[1].operational_risk_flags
             = <<Flag("No temporal column detected", <<>>)>>

\* evaluate_operational has returned for a table of rows and columns none
\* of which is temporal, a day after the first call
C9_Witness ==
    /\ Done("operational")
    /\ NoTemporalColumn(df)
    /\ df.n_rows > 0
    /\ n_cols(df) = MaxCols
    /\ now > 0

\* The numeric columns of the profile's table whose name matches a pattern.
ColumnsLike(patterns) ==
    {j \in 1..n_cols(df) : IsNumber(df.cols[j]) /\ _col_like(df.cols[j].name, patterns)}

\* The business-rule checks that apply to the table of the profile, each
\* once: <<rule, column, other column>>.
ApplicableChecks ==
    {<<"revenue not negative", j, j>> : j \in ColumnsLike(REVENUE_PATTERNS)}
    \cup {c \in {<<"profit within revenue", p, r>> :
                    p \in ColumnsLike(PROFIT_PATTERNS),
                    r \in ColumnsLike(REVENUE_PATTERNS)} : c[2] # c[3]}
    \cup {<<"quantity not negative", j, j>> : j \in ColumnsLike(QTY_PATTERNS)}
    \cup {<<"identifier unique", j, j>> :
            j \in {j \in 1..n_cols(df) :
                    /\ _col_like(df.cols[j].name, ID_PATTERNS)
                    /\ \E i \in 1..Len(df.cols[j].vals) : ~IsNull(df.cols[j].vals[i])
                    /\ df.cols[j].dtype \in {"object", "string", "int64", "int32"}}}

Violated(c) ==
    CASE c[1] = "profit within revenue" -> exceeds(df.cols[c[2]], df.cols[c[3]])
      [] c[1] = "identifier unique" ->
            \E i, k \in 1..Len(df.cols[c[2]].vals) :
                i # k /\ df.cols[c[2]].vals[i] = df.cols[c[2]].vals[k]
      [] OTHER -> has_negative(df.cols[c[2]])

TallyTotal == Cardinality(ApplicableChecks)
TallyFailed == Cardinality({c \in ApplicableChecks : Violated(c)})

\* total * max(0, 1 - 1.5 * failed / total), in units of 1/10000
TallyIntegrity(total, failed) == Max2(0, 10000 * total - 15000 * failed)

\* x is y / total rounded to a whole number of units
RoundsTo(x, y, total) ==
    2 * x * total - total <= 2 * y /\ 2 * y <= 2 * x * total + total

\* C10: when zero checks apply evaluate_logical returns integrity 0.85 and
\* violation rate 0; otherwise, every applicable check counted once in
\* total and in passed only if it recorded no violation, violation_rate is
\* 1 - passed/total rounded to 4 decimals and logical_integrity_score is
\* max(0, 1 - 1.5*(1 - passed/total)), capped at 1, rounded to 4 decimals;
\* one violation is recorded per failed check (the first 30 are returned).
C10_LogicalTallyRounded ==
    Done("logical") =>
        LET total == TallyTotal
            failed == TallyFailed
        IN  /\ Len(res.logical[1].violations_summary) = Min2(30, failed)
            /\ IF total = 0
               THEN /\ res.logical[1].logical_integrity_score = 8500
                    /\ res.logical[1].violation_rate = 0
               ELSE /\ RoundsTo(res.logical[1].violation_rate, 10000 * failed, total)
                    /\ RoundsTo(res.logical[1].logical_integrity_score,
                                TallyIntegrity(total, failed), total)
                    /\ res.logical[1].logical_integrity_score <= 10000

\* evaluate_logical has returned for a table to which three checks apply,
\* of which one recorded a violation
C10_Witness ==
    /\ Done("logical")
    /\ TallyTotal = 3
    /\ TallyFailed = 1
    /\ res.logical[1].violation_rate = 3333

\* C10 as stated: the violation_rate returned is 1 - passed/total and the
\* logical_integrity_score returned is max(0, 1 - 1.5*violation_rate).
C10_LogicalTallyExact ==
    Done("logical") =>
        LET total == TallyTotal
            failed == TallyFailed
        IN  total > 0 =>
              /\ res.logical[1].violation_rate * total = 10000 * failed
              /\ res.logical[1].logical_integrity_score * total
                   = TallyIntegrity(total, failed)

\* the number of entries of xs equal to x
Occurrences(x, xs) == Cardinality({i \in 1..Len(xs) : xs[i] = x})

\* C11: redundant_feature_list holds no entry twice, and two numeric columns
\* whose correlation magnitude exceeds 0.95 are both in it exactly once,
\* whether or not one of them is also constant, near-constant or correlated
\* with further columns.
C11_RedundantListHasNoDuplicates ==
    Done("structural") =>
        LET list == res.structural[1].redundant_feature_list
        IN  /\ \A i, k \in 1..Len(list) : list[i] = list[k] => i = k
            /\ \A i, k \in 1..n_cols(df) :
                  ( /\ i # k
                    /\ IsNumber(df.cols[i]) /\ IsNumber(df.cols[k])
                    /\ corr_above_095(df.cols[i], df.cols[k]) ) =>
                      /\ Occurrences(df.cols[i].name, list) = 1
                      /\ Occurrences(df.cols[k].name, list) = 1

\* evaluate_structural has returned for a table with a numeric column that
\* is near-constant and correlated with at least two other columns
C11_Witness ==
    /\ Done("structural")
    /\ \E j \in 1..n_cols(df) :
          /\ IsNumber(df.cols[j])
          /\ IsNearConstant(df, df.cols[j])
          /\ Cardinality({k \in 1..n_cols(df) :
                            /\ k # j
                            /\ IsNumber(df.cols[k])
                            /\ corr_above_095(df.cols[j], df.cols[k])}) >= 2
          /\ Occurrences(df.cols[j].name, res.structural[1].redundant_feature_list) = 1

\* a column named email, with at least one value, whose values are all
\* e-mail formatted strings
IsEmailColumn(col) ==
    /\ col.name = <<"e","m","a","i","l">>
    /\ Len(col.vals) >= 1
    /\ \A i \in 1..Len(col.vals) : col.vals[i].k = "email"

\* the reasons that carry a weight of 0.9 or more
HeavyWords ==
    << <<"p","a","s","s","w","o","r","d">>, <<"s","e","c","r","e","t">>,
       <<"t","o","k","e","n">>, <<"s","s","n">>,
       <<"c","r","e","d","i","t","_","c","a","r","d">>, <<"s","a","l","a","r","y">> >>

\* some column of the sensitive-column map m has a reason of weight >= 0.9
CarriesHeavyPattern(m) ==
    \E c \in DOMAIN m : \E r \in m[c] :
        \E w \in 1..Len(HeavyWords) : Contains(HeavyWords[w], r)

\* C12: a column named email holding only e-mail formatted strings is a key
\* of sensitive_column_map with the email pattern among its reasons; if it is
\* the only sensitive column the classification is Moderate or High; and the
\* classification is High only if some column carries a pattern of weight
\* 0.9 or more or at least four further columns are sensitive.
C12_EmailColumnIsSensitive ==
    (Done("governance") /\ \E j \in 1..n_cols(df) : IsEmailColumn(df.cols[j])) =>
        LET m == res.governance[1].sensitive_column_map
            class == res.governance[1].sensitivity_classification
            email == <<"e","m","a","i","l">>
        IN  /\ email \in DOMAIN m
            /\ email \in m[email]
            /\ DOMAIN m = {email} => class \in {"Moderate", "High"}
            /\ class = "High" =>
                  \/ CarriesHeavyPattern(m)
                  \/ Cardinality(DOMAIN m \ {email}) >= 4

\* evaluate_governance has returned High for a table whose email column is
\* joined by four further sensitive columns, none carrying a pattern of
\* weight 0.9 or more
C12_Witness ==
    /\ Done("governance")
    /\ \E j \in 1..n_cols(df) : IsEmailColumn(df.cols[j])
    /\ res.governance[1].sensitivity_classification = "High"
    /\ ~CarriesHeavyPattern(res.governance[1].sensitive_column_map)
    /\ Cardinality(DOMAIN res.governance[1].sensitive_column_map) = 5

\* xs is the first entries of all, at most cap of them
FirstOf(xs, all, cap) ==
    /\ Len(xs) = Min2(cap, Len(all))
    /\ \A i \in 1..Len(xs) : xs[i] = all[i]

\* C13: risk_flags has at most 50 entries and violations_summary at most
\* 30, however many sensitive columns or violated rules are detected, and
\* the entries kept are the first ones in the order of detection.
C13_ListsAreCapped ==
    /\ Done("governance") =>
          /\ Len(res.governance[1].risk_flags) <= 50
          /\ FirstOf(res.governance[1].risk_flags,
                     governance_flags(df, sensitive(df)), 50)
    /\ Done("logical") =>
          /\ Len(res.logical[1].violations_summary) <= 30
          /\ FirstOf(res.logical[1].violations_summary,
                     violations(logical_checks(df)), 30)

\* both evaluators have returned for a table in which more than 50 flags and
\* more than 30 violations are detected
C13_Witness ==
    /\ Done("governance")
    /\ Done("logical")
    /\ Len(governance_flags(df, sensitive(df))) > 50
    /\ Len(violations(logical_checks(df))) > 30
    /\ Len(res.governance[1].risk_flags) = 50
    /\ Len(res.logical[1].violations_summary) = 30

\* the columns of the profile's table all of whose values are missing
FullyNull == {j \in 1..n_cols(df) : \A i \in 1..df.n_rows : IsNull(df.cols[j].vals[i])}

\* the missing cells of the profile's table
MissingCells ==
    {<<i, j>> \in (1..df.n_rows) \X (1..n_cols(df)) : IsNull(df.cols[j].vals[i])}

\* the rows of the profile's table that repeat an earlier row
DuplicateRows ==
    {i \in 1..df.n_rows :
        n_cols(df) > 0 /\ \E k \in 1..(i - 1) :
            \A j \in 1..n_cols(df) : df.cols[j].vals[k] = df.cols[j].vals[i]}

\* 1.0 minus the four stated penalties, in units of 1/10000, with
\* `redundant_count` redundant columns
StatedStructuralScore(redundant_count) ==
    LET cells == df.n_rows * n_cols(df)
        miss == Cardinality(MissingCells)
        dups == Cardinality(DuplicateRows)
        nulls == Cardinality(FullyNull)
    IN  10000
        - (IF 100 * miss > 50 * cells THEN 3500
           ELSE IF 100 * miss > 20 * cells THEN 2000
           ELSE IF 100 * miss > 5 * cells THEN 1000
           ELSE 0)
        - (IF 10 * dups > df.n_rows THEN 2000
           ELSE IF dups > 0 THEN 1000
           ELSE 0)
        - 1000 * (IF nulls > 3 THEN 3 ELSE nulls)
        - (IF 100 * redundant_count > 30 * n_cols(df) THEN 1500 ELSE 0)

\* C14: structural_integrity_score is 1.0 minus 0.35 / 0.2 / 0.1 for a
\* missing density above 0.5 / 0.2 / 0.05, minus 0.2 for a duplicate-row
\* ratio above 0.1 or else 0.1 for any duplicate row, minus 0.1 per
\* fully-null column for at most 3 columns, minus 0.15 if the redundant
\* columns exceed 30% of the columns, clamped to [0,1].
C14_StructuralScoreFormula ==
    Done("structural") =>
        LET stated == StatedStructuralScore(
                        Len(res.structural[1].redundant_feature_list))
        IN  res.structural[1].structural_integrity_score
              = (IF stated < 0 THEN 0 ELSE IF stated > 10000 THEN 10000 ELSE stated)

\* evaluate_structural has returned for a table of more than three
\* fully-null columns on which all four penalties fall, the score being 0
C14_Witness ==
    /\ Done("structural")
    /\ Cardinality(FullyNull) > 3
    /\ Cardinality(DuplicateRows) > 0
    /\ 100 * Len(res.structural[1].redundant_feature_list) > 30 * n_cols(df)
    /\ res.structural[1].structural_integrity_score = 0

\* the name of column j in lower case contains one of the words
NameHas(j, words) == _col_like(df.cols[j].name, words)

\* column j is a text column with an e-mail formatted value
HoldsEmail(j) ==
    /\ df.cols[j].dtype \in {"object", "string"}
    /\ \E i \in 1..df.n_rows : df.cols[j].vals[i].k = "email"

\* the sensitive columns of the profile's table: a sensitive term in the
\* name, or a PII pattern among the values of a text column
SensitiveColumns ==
    {j \in 1..n_cols(df) : NameHas(j, SENSITIVE_NAME_PATTERNS) \/ HoldsEmail(j)}

\* the stated weight of a column, in tenths
StatedWeight(j) ==
    IF NameHas(j, <<<<"p","a","s","s","w","o","r","d">>, <<"s","e","c","r","e","t">>,
                    <<"t","o","k","e","n">>>>) THEN 10
    ELSE IF NameHas(j, <<<<"s","s","n">>, <<"c","r","e","d","i","t","_","c","a","r","d">>,
                         <<"s","a","l","a","r","y">>>>) THEN 9
    ELSE IF NameHas(j, <<<<"e","m","a","i","l">>, <<"p","h","o","n","e">>>>) \/ HoldsEmail(j)
         THEN 7
    ELSE 0

\* the largest stated weight of the columns S, 0 if there is none
StatedMaxRisk(S) ==
    IF S = {} THEN 0
    ELSE LET W == {StatedWeight(j) : j \in S}
         IN  CHOOSE w \in W : \A v \in W : v <= w

\* C15: governance_risk_score is 0.1 when no column is sensitive and
\* min(1, 0.3 + 0.2*count + 0.5*max_risk) otherwise; the classification is
\* High if max_risk >= 0.9 or count >= 5, Moderate if max_risk >= 0.5 or
\* count >= 2, else Low; count is the number of sensitive columns and
\* max_risk the largest per-column weight: 1.0 for a password, secret or
\* token match, else 0.9 for ssn, credit_card or salary, else 0.7 for email
\* or phone, else 0.
C15_GovernanceRiskFormula ==
    Done("governance") =>
        LET S == SensitiveColumns
            count == Cardinality(S)
            risk == StatedMaxRisk(S)
            stated == 3000 + 2000 * count + 500 * risk
        IN  /\ res.governance[1].governance_risk_score
                 = (IF count = 0 THEN 1000
                    ELSE IF stated > 10000 THEN 10000 ELSE stated)
            /\ res.governance[1].sensitivity_classification
                 = (IF risk >= 9 \/ count >= 5 THEN "High"
                    ELSE IF risk >= 5 \/ count >= 2 THEN "Moderate"
                    ELSE "Low")

\* evaluate_governance has returned for a table with one sensitive column,
\* of weight 0.9: the risk is 0.3 + 0.2 + 0.45 and the classification High
C15_Witness ==
    /\ Done("governance")
    /\ Cardinality(SensitiveColumns) = 1
    /\ StatedMaxRisk(SensitiveColumns) = 9
    /\ res.governance[1].governance_risk_score = 9500
    /\ res.governance[1].sensitivity_classification = "High"

\* the days of the timestamps of the temporal column, in increasing order
Timestamps == sorted_days(_find_temporal_column(df).ts)

\* the differences of consecutive timestamps
Differences(ts) == [i \in 1..(Len(ts) - 1) |-> ts[i + 1] - ts[i]]

\* g: the differences exceeding twice the median difference
StatedGapCount(ts) ==
    IF Len(ts) < 2 THEN 0
    ELSE LET d == Differences(ts)
             twice_median == TwiceMedian(d)
         IN  Cardinality({i \in 1..Len(d) : d[i] > twice_median})

MedianIsPositive(ts) == Len(ts) >= 2 /\ TwiceMedian(Differences(ts)) > 0

\* L for a lag of `lag` days, in units of 1/10000
StatedLagPenalty(lag) ==
    IF lag > 365 THEN 4000 ELSE IF lag > 90 THEN 2000 ELSE IF lag > 30 THEN 1000 ELSE 0

\* min(0.2, 0.05 * min(g, 4)), in units of 1/10000
StatedGapPenalty(g) ==
    LET p == 500 * (IF g < 4 THEN g ELSE 4) IN IF p < 2000 THEN p ELSE 2000

\* the operational result held in res is clamp(1 - L - G) for the latest
\* timestamp and g counted gaps, with the gap flag exactly when g > 0
ScoreAndFlagFor(latest, g) ==
    LET lag == clk[Len(clk)] - latest
        x == 10000 - StatedLagPenalty(lag) - StatedGapPenalty(g)
    IN  /\ res.operational[1].temporal_reliability_score
             = (IF x < 0 THEN 0 ELSE IF x > 10000 THEN 10000 ELSE x)
        /\ InSeq(Flag("Time gaps detected", <<>>),
                 res.operational[1].operational_risk_flags) <=> g > 0

\* C16: for a table whose temporal column holds a timestamp, the score
\* returned is clamp(1 - L - G): L is 0.4 / 0.2 / 0.1 for a lag of the latest
\* timestamp over 365 / 90 / 30 days, else 0; with at least two timestamps
\* and a positive median difference G = min(0.2, 0.05*min(g, 4)), g the
\* number of consecutive differences exceeding twice the median, and a gap
\* flag is appended exactly when g > 0; with a median difference of zero
\* G = 0 and there is no gap flag.
C16_GapsCountedForPositiveMedian ==
    Done("operational") =>
        LET ts == Timestamps
        IN  Len(ts) >= 1 =>
              ScoreAndFlagFor(ts[Len(ts)],
                              IF MedianIsPositive(ts) THEN StatedGapCount(ts) ELSE 0)

\* evaluate_operational has returned for a temporal column whose median
\* difference is zero although one difference is positive
C16_Witness ==
    /\ Done("operational")
    /\ Len(Timestamps) >= 2
    /\ ~MedianIsPositive(Timestamps)
    /\ StatedGapCount(Timestamps) > 0
    /\ res.operational[1].has_temporal_column

\* C16 as stated: whenever at least two timestamps exist, also when the
\* median difference is zero, G = min(0.2, 0.05*min(g, 4)) and the gap flag
\* is appended exactly when g > 0.
C16_GapsCountedForAnyMedian ==
    Done("operational") =>
        LET ts == Timestamps
        IN  Len(ts) >= 1 => ScoreAndFlagFor(ts[Len(ts)], StatedGapCount(ts))

\* column j qualifies as temporal: a native date/time column, or a text
\* column with a value that starts like an ISO date
Qualifies(j) ==
    \/ df.cols[j].dtype \in {"datetime64[ns]", "datetime64[ns, UTC]"}
    \/ /\ df.cols[j].dtype \in {"object", "string"}
       /\ \E i \in 1..df.n_rows : df.cols[j].vals[i].k \in {"iso", "isoz"}

\* the days of the timestamps column j holds
DaysOf(j) ==
    {df.cols[j].vals[i].v : i \in {i \in 1..df.n_rows : ~IsNull(to_datetime(df.cols[j].vals[i]))}}

\* C17: evaluate_operational returns the degenerate no-temporal-column
\* result only when no column of the table qualifies as temporal; whenever
\* some column qualifies, wherever it stands among the columns,
\* has_temporal_column is true and the lag is that of the latest timestamp
\* of a qualifying column.  Stated for the tables in which a qualifying
\* column holds at least one timestamp.
C17_QualifyingColumnIsUsed ==
    (Done("operational") /\ \E j \in 1..n_cols(df) : Qualifies(j) /\ DaysOf(j) # {}) =>
        /\ res.operational[1].has_temporal_column
        /\ \E j \in 1..n_cols(df) :
              /\ Qualifies(j)
              /\ \E d \in DaysOf(j) :
                    /\ \A e \in DaysOf(j) : e <= d
                    /\ res.operational[1].latest_update_lag_days
                         = <<clk[Len(clk)] - d>>

\* the analytical result held in res has the stated scores: utility
\* clamp(1 - 0.1*min(L,5) - 0.05*min(S,4) - 0.1*min(V,3)) and preparation
\* clamp(0.1*L + 0.05*S + 0.05*D + 0.1*V + 0.5*missing_density) rounded to 4
\* decimals, L, S and V being the lengths of the three lists returned and D
\* the given number of low-diversity columns
AnalyticalScoresAsStated(D) ==
    LET L == Len(res.analytical[1].low_variance_columns)
        S == Len(res.analytical[1].high_skew_columns)
        V == Len(res.analytical[1].high_vif_columns)
        cells == df.n_rows * n_cols(df)
        miss == isna_sum(df)
        u == 10000 - 1000 * (IF L < 5 THEN L ELSE 5)
                   - 500 * (IF S < 4 THEN S ELSE 4)
                   - 1000 * (IF V < 3 THEN V ELSE 3)
        base == 1000 * L + 500 * S + 500 * D + 1000 * V
        p == res.analytical[1].preparation_complexity_score
    IN  /\ res.analytical[1].analytics_utility_score = (IF u < 0 THEN 0 ELSE u)
        /\ IF cells = 0 THEN p = (IF base > 10000 THEN 10000 ELSE base)
           ELSE IF base * cells + 5000 * miss >= 10000 * cells THEN p = 10000
           ELSE RoundsTo(p, base * cells + 5000 * miss, cells)

\* C18: for every table with at least one numeric column, one with zero
\* rows included, the analytical scores are computed from utility 1.0 and
\* preparation 0.0 by the stated formulas; the 0.5/0.5 default is returned
\* only when no column is numeric.
C18_ComputedWheneverNumeric ==
    (Done("analytical") /\ \E j \in 1..n_cols(df) : IsNumber(df.cols[j])) =>
        AnalyticalScoresAsStated(low_diversity_count(df))

\* the text columns of cardinality greater than 1 whose normalized entropy
\* ratio is below 0.1
DiverseButLowEntropy ==
    {j \in 1..n_cols(df) :
        /\ df.cols[j].dtype \in {"object", "string"}
        /\ nunique(df.cols[j]) > 1
        /\ is_low_diversity(df.cols[j])}

\* C19: the 0.05 low-diversity addition to preparation complexity is made
\* for a text column only when its cardinality is greater than 1 and its
\* normalized entropy ratio is below 0.1; a text column with one distinct
\* value, or with no non-null value, adds nothing.  Stated for the tables
\* with rows and a numeric column, whose scores are computed.
C19_SingleValuedTextAddsNothing ==
    ( /\ Done("analytical")
      /\ df.n_rows > 0
      /\ \E j \in 1..n_cols(df) : IsNumber(df.cols[j]) ) =>
        AnalyticalScoresAsStated(Cardinality(DiverseButLowEntropy))

\* C20: for every non-empty table the flag "No obvious unique identifier"
\* is raised by evaluate_governance exactly when evaluate_structural
\* reports an empty candidate_primary_keys list.
C20_UniqueKeyDetectionsAgree ==
    ( /\ Done("structural")
      /\ Done("governance")
      /\ df.n_rows > 0
      /\ n_cols(df) > 0 ) =>
        ( InSeq(Flag("No obvious unique identifier; re-identification risk", <<>>),
                res.governance[1].risk_flags)
          <=> res.structural[1].candidate_primary_keys = <<>> )

\* the categories from the lowest to the highest
TierRank(tier) ==
    CASE tier = "Not Trustworthy" -> 0
      [] tier = "Risk Present" -> 1
      [] tier = "Review Recommended" -> 2
      [] tier = "Decision-Ready" -> 3

\* trust result `b` is no worse than trust result `a`
NoWorse(a, b) ==
    /\ a.edti_score <= b.edti_score
    /\ TierRank(a.trust_tier) <= TierRank(b.trust_tier)

\* the trust results of the five results (s, g, o, l, a) with one input
\* replaced by a better grid value: a higher score, a lower risk or burden
Improved(s, g, o, l, a) ==
    {compute_edti(StructuralOf(x), g, o, l, a) :
        x \in {y \in ScoreGrid : y >= s.structural_integrity_score}}
    \cup {compute_edti(s, GovernanceOf(x), o, l, a) :
        x \in {y \in RiskGrid : y <= g.governance_risk_score}}
    \cup {compute_edti(s, g, OperationalOf(x), l, a) :
        x \in {y \in ScoreGrid : y >= o.temporal_reliability_score}}
    \cup {compute_edti(s, g, o, LogicalOf(x), a) :
        x \in {y \in ScoreGrid : y >= l.logical_integrity_score}}
    \cup {compute_edti(s, g, o, l, AnalyticalOf(x, a.preparation_complexity_score)) :
        x \in {y \in ScoreGrid : y >= a.analytics_utility_score}}
    \cup {compute_edti(s, g, o, l, AnalyticalOf(a.analytics_utility_score, x)) :
        x \in {y \in BurdenGrid : y <= a.preparation_complexity_score}}

\* C21: compute_edti is monotone: with the other inputs fixed, raising the
\* structural, operational, logical or analytics-utility score, or lowering
\* the governance risk or the preparation complexity, never lowers
\* edti_score and never moves the trust tier to a lower category.
C21_EdtiIsMonotone ==
    Done("trust") =>
        LET trust == res.trust[1]
        IN  \A better \in Improved(res.structural[1], res.governance[1],
                                   res.operational[1], res.logical[1],
                                   res.analytical[1]) :
                NoWorse(trust, better)

\* compute_edti has run on results whose governance risk is above 1, where
\* lowering the risk to 1 leaves the score as it is, while a higher
\* structural score lifts the tier and a lower burden lifts the score
C21_Witness ==
    /\ Done("trust")
    /\ Len(bundles) >= 1
    /\ res.governance[1].governance_risk_score = 12000
    /\ compute_edti(res.structural[1], GovernanceOf(10000), res.operational[1],
                    res.logical[1], res.analytical[1]).edti_score
         = res.trust[1].edti_score
    /\ \E x \in ScoreGrid :
          /\ x > res.structural[1].structural_integrity_score
          /\ TierRank(compute_edti(StructuralOf(x), res.governance[1],
                                   res.operational[1], res.logical[1],
                                   res.analytical[1]).trust_tier)
               > TierRank(res.trust[1].trust_tier)
    /\ \E x \in BurdenGrid :
          /\ x < res.analytical[1].preparation_complexity_score
          /\ compute_edti(res.structural[1], res.governance[1],
                          res.operational[1], res.logical[1],
                          AnalyticalOf(res.analytical[1].analytics_utility_score, x)).edti_score
               > res.trust[1].edti_score

\* the governance risk is 0.1 or at least 0.5, as the count n of sensitive
\* columns has it: 0.1 with none, at least 0.5 with one, 1.0 from four on
RiskIsSteppedFor(risk, n) ==
    /\ risk >= 1000
    /\ ~(1000 < risk /\ risk < 5000)
    /\ n = 0 => risk = 1000
    /\ n >= 1 => risk >= 5000
    /\ n >= 4 => risk = 10000

\* C22: evaluate_governance never returns a risk score below 0.1 and never
\* one strictly between 0.1 and 0.5 (0.1 with no sensitive column, at least
\* 0.5 with one, 1.0 with four or more), so the EDTI that TrustEngine.evaluate
\* produces never exceeds 0.98, in the result being built and in every
\* bundle returned.
C22_RiskFloorBoundsEdti ==
    /\ Done("governance") =>
          RiskIsSteppedFor(res.governance[1].governance_risk_score,
                           Cardinality(DOMAIN res.governance[1].sensitive_column_map))
    /\ Done("trust") => res.trust[1].edti_score <= 9800
    /\ \A i \in 1..Len(bundles) :
          /\ RiskIsSteppedFor(bundles[i].governance.governance_risk_score,
                              Cardinality(DOMAIN bundles[i].governance.sensitive_column_map))
          /\ bundles[i].trust.edti_score <= 9800

\* a bundle was returned for a table with no sensitive column on which no
\* evaluator found anything: the risk is at its floor of 0.1, every other
\* component is 1, and the EDTI is 0.98
C22_Witness ==
    /\ Len(bundles) >= 1
    /\ DOMAIN bundles[1].governance.sensitive_column_map = {}
    /\ bundles[1].governance.governance_risk_score = 1000
    /\ bundles[1].trust.component_scores.governance = 9000
    /\ bundles[1].operational.has_temporal_column
    /\ bundles[1].trust.edti_score = 9800

====
